---- MODULE Spec2Model ----
(***************************************************************************)
(* Model of the authenticated-command client: Metadata / AuthSession /     *)
(* Signer (src/src/Signer.js), CarServer (src/src/CarServer.js) and the    *)
(* FleetApi transport (src/src/FleetApi.js).  Four specifications share    *)
(* the variables: Spec (CarServer, the transport seen as one awaited       *)
(* signedCommand round trip), SpecConcurrent (CarServer with operations    *)
(* interleaved at their awaits), SpecApi (FleetApi with its token refresh) *)
(* and SpecMetadata (one Metadata object).                                 *)
(*                                                                         *)
(* Byte buffers are sequences of numbers.  An HMAC digest is modelled as   *)
(* the record of everything it was computed from (derived key and absorbed *)
(* byte stream), i.e. as a collision-free hash, with its byte length.      *)
(* A function that can throw returns a record carrying `err`, the message  *)
(* of the exception ("" when it returned normally).                        *)
(***************************************************************************)
EXTENDS Integers, Sequences, FiniteSets, TLC

(***************************************************************************)
(* Bounds of the model.                                                    *)
(***************************************************************************)
MaxOps == 3        \* operations (startSession / chargingSetLimit) that get past their entry guard
MaxInflight == 1   \* operations awaiting their transport round trip at one time
MaxCalls == 4      \* concurrent commands: operations that get past their entry guard
MaxActive == 2     \* concurrent commands: operations under way at one time
MaxApiCalls == 2   \* FleetApi: API calls started
MaxApiActive == 1  \* FleetApi: API calls under way at one time
MaxHttp == 3       \* FleetApi: HTTP requests that the server lets one API call come to
MaxEntries == 3    \* Metadata: calls of add on one object

(***************************************************************************)
(* Program constants.  The enum values are those of the protocol's         *)
(* signatures, universal_message and car_server schemas, which the code    *)
(* looks up by name.                                                       *)
(***************************************************************************)
EPOCH_LENGTH == 1073741824               \* 1 << 30
LIMB == 65536                            \* a 32-bit value is kept as hi * LIMB + lo
DIGEST_LENGTH == 32                      \* byte length of an HMAC-SHA256 digest
FIELD_MAX == 255                         \* longest metadata field
TAG_SIGNATURE_TYPE == 0
TAG_DOMAIN == 1
TAG_PERSONALIZATION == 2
TAG_EPOCH == 3
TAG_EXPIRES_AT == 4
TAG_COUNTER == 5
TAG_CHALLENGE == 6
TAG_END == 255
SIGNATURE_TYPE_HMAC == 6
SIGNATURE_TYPE_HMAC_PERSONALIZED == 8
DOMAIN_VEHICLE_SECURITY == 2
DOMAIN_INFOTAINMENT == 3
OPERATIONSTATUS_OK == 0
OPERATIONSTATUS_ERROR == 1
COMMAND_TTL == 5                         \* expiresIn passed by #requestAction

(***************************************************************************)
(* Error messages of the code.                                             *)
(***************************************************************************)
NoError == ""
ErrTagOrder == "metadata items need to be added in increasing tag order"
ErrFieldLength == "metadata fields can't be more than 255 bytes long"
ErrUint32Range == "The value of \"value\" is out of range."
ErrExpiry == "out of bounds expiration time"
ErrTimingSafeEqual == "Input buffers must have the same byte length"
ErrPeerKey == "Unknown point format"
ErrMissingSource == "Missing response source"
ErrSourceDomain == "Invalid source domain"
ErrMissingDestination == "Missing response destination"
ErrDestinationAddress == "Invalid destination address"
ErrMissingUuid == "Missing request UUID"
ErrMissingTag == "Missing sessionInfo tag"
ErrHmacInvalid == "Session info hmac invalid"
ErrInvalidResponse == "Invalid response"
ErrNotStarted == "Session not started"
ErrUnknownReason == "Unknown result Reason"
ErrUnknownError == "Unknown error"
ErrInvalidResult == "Invalid CarServer action result"
ErrTransport == "ApiError"

(***************************************************************************)
(* Inputs.                                                                 *)
(***************************************************************************)
Vin == <<53, 89, 74>>                    \* this.vin, as the bytes of Buffer.from(vin)
LocalKey == <<4, 10>>                    \* this.privateKey (key pair of the caller)
BadPeerKey == <<9>>                      \* a peer public key that is no curve point
PeerKeys == {<<4, 11>>, <<4, 12>>}       \* peer public keys on the curve
\* the session infos a peer can issue: public key, clock time, epoch
\* identifier, starting counter (0 and 2^32 - 2, in limbs)
SessionInfos ==
    {[publicKey |-> <<4, 11>>, clockTime |-> 0, epoch |-> <<225, 1>>,
      counter |-> [hi |-> 0, lo |-> 0]],
     [publicKey |-> <<4, 12>>, clockTime |-> EPOCH_LENGTH - 5, epoch |-> <<226, 2>>,
      counter |-> [hi |-> LIMB - 1, lo |-> LIMB - 2]],
     [publicKey |-> <<4, 11>>, clockTime |-> EPOCH_LENGTH - 6, epoch |-> <<226, 2>>,
      counter |-> [hi |-> 0, lo |-> 0]],
     [publicKey |-> BadPeerKey, clockTime |-> 0, epoch |-> <<225, 1>>,
      counter |-> [hi |-> 0, lo |-> 0]]}
Clock == {1000, 1006}                    \* values of Math.floor(Date.now() / 1000)
Addrs == {<<161>>}                       \* values of randomBytes(16) for a routing address
OtherAddrs == {<<162>>}                  \* routing addresses that no request came from
Uuids == {<<241>>}                       \* values of randomBytes(16) for a request uuid
Percents == {80}
Reasons == {"precondition_failed"}
Results == {OPERATIONSTATUS_OK, OPERATIONSTATUS_ERROR, 2}

(***************************************************************************)
(* Metadata (Signer.js 11-41) over an HMAC context.                        *)
(***************************************************************************)
\* crypto.createHmac(...).update(bytes)
Update(context, bytes) == [context EXCEPT !.data = @ \o bytes]

\* crypto.createHmac(...).digest()
Digest(context) ==
    [len |-> DIGEST_LENGTH, key |-> context.key, data |-> context.data, flip |-> 0]

\* new Metadata(context)
NewMetadata(context) == [context |-> context, last |-> 0, err |-> NoError]

\* the JavaScript null, where a byte buffer is expected
NullValue == <<-1>>

\* as add, with the test for null before the test of the order
addNullFirst(meta, tag, value) ==
    IF meta.err # NoError THEN meta
    ELSE IF value = NullValue THEN meta
    ELSE IF tag < meta.last THEN [meta EXCEPT !.err = ErrTagOrder]
    ELSE IF Len(value) > FIELD_MAX THEN [meta EXCEPT !.err = ErrFieldLength]
    ELSE [meta EXCEPT !.last = tag,
                      !.context = Update(Update(Update(@, <<tag>>), <<Len(value)>>), value)]

\* Metadata.add(tag, value); a Metadata that has thrown stays as it is
add(meta, tag, value) ==
    IF meta.err # NoError THEN meta
    ELSE IF tag < meta.last THEN [meta EXCEPT !.err = ErrTagOrder]
    ELSE IF value = NullValue THEN meta
    ELSE IF Len(value) > FIELD_MAX THEN [meta EXCEPT !.err = ErrFieldLength]
    ELSE [meta EXCEPT !.last = tag,
                      !.context = Update(Update(Update(@, <<tag>>), <<Len(value)>>), value)]

\* Numbers that can pass 2^31 (the replay counter, a JavaScript Number) are
\* kept in two limbs, value = hi * LIMB + lo with 0 <= lo < LIMB.
Wide(n) == [hi |-> n \div LIMB, lo |-> n % LIMB]
Inc(w) == IF w.lo = LIMB - 1 THEN [hi |-> w.hi + 1, lo |-> 0] ELSE [w EXCEPT !.lo = @ + 1]
Less(a, b) == a.hi < b.hi \/ (a.hi = b.hi /\ a.lo < b.lo)
IsUint32(w) == 0 <= w.hi /\ w.hi < LIMB

\* Buffer.alloc(4).writeUInt32BE(value)
WriteUInt32BE(value) ==
    << value.hi \div 256, value.hi % 256, value.lo \div 256, value.lo % 256 >>

\* Metadata.addUint32(tag, value); writeUInt32BE throws outside [0, 2^32 - 1]
addUint32(meta, tag, value) ==
    IF meta.err # NoError THEN meta
    ELSE IF ~IsUint32(value) THEN [meta EXCEPT !.err = ErrUint32Range]
    ELSE add(meta, tag, WriteUInt32BE(value))

\* as checksum, without the end tag
checksumWithoutEnd(meta, message) ==
    Digest(Update(meta.context, message))

\* Metadata.checksum(message)
checksum(meta, message) ==
    Digest(Update(Update(meta.context, <<TAG_END>>), message))

(***************************************************************************)
(* AuthSession (Signer.js 43-66).                                          *)
(***************************************************************************)
\* the ECDH shared secret of two key pairs, hashed and truncated: it is the
\* same whichever side derives it
SharedKey(key, serverPublicKey) == {key, serverPublicKey}

\* AuthSession.newHMAC(label): an HMAC keyed with HMAC(key, label)
newHMAC(session, label) == [key |-> <<session.key, label>>, data |-> <<>>]

\* crypto.timingSafeEqual(a, b); throws when the lengths differ
TimingSafeEqual(a, b) ==
    IF a.len # b.len THEN [err |-> ErrTimingSafeEqual, ret |-> FALSE]
    ELSE [err |-> NoError, ret |-> (a = b)]

(***************************************************************************)
(* Signatures.SessionInfo on the wire: counter (two limbs), clock time,    *)
(* public key (length-prefixed), epoch.                                    *)
(***************************************************************************)
EncodeSessionInfo(info) ==
    <<info.counter.hi, info.counter.lo, info.clockTime, Len(info.publicKey)>>
    \o info.publicKey \o info.epoch

\* sessionInfoProto.decode(bytes)
DecodeSessionInfo(bytes) ==
    [counter |-> [hi |-> bytes[1], lo |-> bytes[2]], clockTime |-> bytes[3],
     publicKey |-> SubSeq(bytes, 5, 4 + bytes[4]),
     epoch |-> SubSeq(bytes, 5 + bytes[4], Len(bytes))]

\* actionProto.encode({ vehicleAction: { chargingSetLimitAction: { percent } } })
EncodeAction(percent) == <<percent>>

(***************************************************************************)
(* Signer (Signer.js 68-116).                                              *)
(***************************************************************************)
\* this.signer = null
NoSigner == [id |-> 0]

\* as NewSigner, with the counter started at zero
NewSignerFreshCounter(id, key, verifierName, info, nowSec) ==
    IF info.publicKey \notin PeerKeys
    THEN [err |-> ErrPeerKey, signer |-> NoSigner]
    ELSE [err |-> NoError,
          signer |-> [id |-> id,
                      session |-> [key |-> SharedKey(key, info.publicKey), localPublic |-> key],
                      verifierName |-> verifierName,
                      timeZero |-> nowSec - info.clockTime,
                      epoch |-> info.epoch,
                      counter |-> Wide(0)]]

\* new Signer(key, verifierName, verifierSessionInfo), built at local time nowSec;
\* id names the instance.  elliptic throws on a public key that is no curve point.
NewSigner(id, key, verifierName, info, nowSec) ==
    IF info.publicKey \notin PeerKeys
    THEN [err |-> ErrPeerKey, signer |-> NoSigner]
    ELSE [err |-> NoError,
          signer |-> [id |-> id,
                      session |-> [key |-> SharedKey(key, info.publicKey), localPublic |-> key],
                      verifierName |-> verifierName,
                      timeZero |-> nowSec - info.clockTime,
                      epoch |-> info.epoch,
                      counter |-> info.counter]]

\* Signer.validateSessionInfo(encodedSessionInfo, challenge, tag)
validateSessionInfo(signer, encodedSessionInfo, challenge, tag) ==
    LET m0 == NewMetadata(newHMAC(signer.session, "session info"))
        m1 == add(m0, TAG_SIGNATURE_TYPE, <<SIGNATURE_TYPE_HMAC>>)
        m2 == add(m1, TAG_PERSONALIZATION, signer.verifierName)
        m3 == add(m2, TAG_CHALLENGE, challenge)
        validTag == checksum(m3, encodedSessionInfo)
    IN  IF m3.err # NoError THEN [err |-> m3.err, ret |-> FALSE]
        ELSE TimingSafeEqual(validTag, tag)

\* the check of expiresAt in generateSignature (Signer.js 97)
ExpiryOutOfBounds(expiresAt) == expiresAt > EPOCH_LENGTH \/ expiresAt < 0

\* as generateSignature, with the counter incremented after the check of expiresAt
generateSignatureLateIncrement(signer, encodedPayload, domain, expiresIn, nowSec) ==
    LET counter == Inc(signer.counter)
        after == [signer EXCEPT !.counter = counter]
        m0 == NewMetadata(newHMAC(signer.session, "authenticated command"))
        m1 == add(m0, TAG_SIGNATURE_TYPE, <<SIGNATURE_TYPE_HMAC_PERSONALIZED>>)
        m2 == add(m1, TAG_DOMAIN, <<domain>>)
        m3 == add(m2, TAG_PERSONALIZATION, signer.verifierName)
        expiresAt == nowSec + expiresIn - signer.timeZero
        m4 == add(m3, TAG_EPOCH, signer.epoch)
        m5 == addUint32(m4, TAG_EXPIRES_AT, Wide(expiresAt))
        m6 == addUint32(m5, TAG_COUNTER, counter)
        none == [has |-> FALSE]
    IN  IF m3.err # NoError THEN [signer |-> signer, err |-> m3.err, sig |-> none]
        ELSE IF ExpiryOutOfBounds(expiresAt)
        THEN [signer |-> signer, err |-> ErrExpiry, sig |-> none]
        ELSE IF m6.err # NoError THEN [signer |-> after, err |-> m6.err, sig |-> none]
        ELSE [signer |-> after, err |-> NoError,
              sig |-> [has |-> TRUE,
                       publicKey |-> signer.session.localPublic,
                       epoch |-> signer.epoch,
                       counter |-> counter,
                       expiresAt |-> expiresAt,
                       tag |-> checksum(m6, encodedPayload)]]

\* as generateSignature, with the clock offset taken anew at each call
generateSignatureRetimed(signer, encodedPayload, domain, expiresIn, nowSec) ==
    LET counter == Inc(signer.counter)
        after == [signer EXCEPT !.counter = counter, !.timeZero = nowSec]
        m0 == NewMetadata(newHMAC(signer.session, "authenticated command"))
        m1 == add(m0, TAG_SIGNATURE_TYPE, <<SIGNATURE_TYPE_HMAC_PERSONALIZED>>)
        m2 == add(m1, TAG_DOMAIN, <<domain>>)
        m3 == add(m2, TAG_PERSONALIZATION, signer.verifierName)
        expiresAt == nowSec + expiresIn - signer.timeZero
        m4 == add(m3, TAG_EPOCH, signer.epoch)
        m5 == addUint32(m4, TAG_EXPIRES_AT, Wide(expiresAt))
        m6 == addUint32(m5, TAG_COUNTER, counter)
        none == [has |-> FALSE]
    IN  IF m3.err # NoError THEN [signer |-> after, err |-> m3.err, sig |-> none]
        ELSE IF ExpiryOutOfBounds(expiresAt)
        THEN [signer |-> after, err |-> ErrExpiry, sig |-> none]
        ELSE IF m6.err # NoError THEN [signer |-> after, err |-> m6.err, sig |-> none]
        ELSE [signer |-> after, err |-> NoError,
              sig |-> [has |-> TRUE,
                       publicKey |-> signer.session.localPublic,
                       epoch |-> signer.epoch,
                       counter |-> counter,
                       expiresAt |-> expiresAt,
                       tag |-> checksum(m6, encodedPayload)]]

\* as generateSignature, with the counter of the returned block read before
\* the increment
generateSignatureStaleCounter(signer, encodedPayload, domain, expiresIn, nowSec) ==
    LET counter == Inc(signer.counter)
        after == [signer EXCEPT !.counter = counter]
        m0 == NewMetadata(newHMAC(signer.session, "authenticated command"))
        m1 == add(m0, TAG_SIGNATURE_TYPE, <<SIGNATURE_TYPE_HMAC_PERSONALIZED>>)
        m2 == add(m1, TAG_DOMAIN, <<domain>>)
        m3 == add(m2, TAG_PERSONALIZATION, signer.verifierName)
        expiresAt == nowSec + expiresIn - signer.timeZero
        m4 == add(m3, TAG_EPOCH, signer.epoch)
        m5 == addUint32(m4, TAG_EXPIRES_AT, Wide(expiresAt))
        m6 == addUint32(m5, TAG_COUNTER, counter)
        none == [has |-> FALSE]
    IN  IF m3.err # NoError THEN [signer |-> after, err |-> m3.err, sig |-> none]
        ELSE IF ExpiryOutOfBounds(expiresAt)
        THEN [signer |-> after, err |-> ErrExpiry, sig |-> none]
        ELSE IF m6.err # NoError THEN [signer |-> after, err |-> m6.err, sig |-> none]
        ELSE [signer |-> after, err |-> NoError,
              sig |-> [has |-> TRUE,
                       publicKey |-> signer.session.localPublic,
                       epoch |-> signer.epoch,
                       counter |-> signer.counter,
                       expiresAt |-> expiresAt,
                       tag |-> checksum(m6, encodedPayload)]]

\* Signer.generateSignature(encodedPayload, domain, expiresIn) called at local time
\* nowSec: the Signer afterwards, the exception thrown, the block returned
generateSignature(signer, encodedPayload, domain, expiresIn, nowSec) ==
    LET counter == Inc(signer.counter)
        after == [signer EXCEPT !.counter = counter]
        m0 == NewMetadata(newHMAC(signer.session, "authenticated command"))
        m1 == add(m0, TAG_SIGNATURE_TYPE, <<SIGNATURE_TYPE_HMAC_PERSONALIZED>>)
        m2 == add(m1, TAG_DOMAIN, <<domain>>)
        m3 == add(m2, TAG_PERSONALIZATION, signer.verifierName)
        expiresAt == nowSec + expiresIn - signer.timeZero
        m4 == add(m3, TAG_EPOCH, signer.epoch)
        m5 == addUint32(m4, TAG_EXPIRES_AT, Wide(expiresAt))
        m6 == addUint32(m5, TAG_COUNTER, counter)
        none == [has |-> FALSE]
    IN  IF m3.err # NoError THEN [signer |-> after, err |-> m3.err, sig |-> none]
        ELSE IF ExpiryOutOfBounds(expiresAt)
        THEN [signer |-> after, err |-> ErrExpiry, sig |-> none]
        ELSE IF m6.err # NoError THEN [signer |-> after, err |-> m6.err, sig |-> none]
        ELSE [signer |-> after, err |-> NoError,
              sig |-> [has |-> TRUE,
                       publicKey |-> signer.session.localPublic,
                       epoch |-> signer.epoch,
                       counter |-> counter,
                       expiresAt |-> expiresAt,
                       tag |-> checksum(m6, encodedPayload)]]

(***************************************************************************)
(* UniversalMessage.RoutableMessage as msgProto.decode yields it: a field  *)
(* the wire does not carry is no own property (has = FALSE).               *)
(***************************************************************************)
Domains == {DOMAIN_VEHICLE_SECURITY, DOMAIN_INFOTAINMENT}

FromShapes ==
    {[has |-> FALSE, hasDomain |-> FALSE, domain |-> 0],
     [has |-> TRUE, hasDomain |-> FALSE, domain |-> 0]}
    \cup {[has |-> TRUE, hasDomain |-> TRUE, domain |-> d] : d \in Domains}

ToShapes ==
    {[has |-> FALSE, hasRoutingAddress |-> FALSE, routingAddress |-> <<>>],
     [has |-> TRUE, hasRoutingAddress |-> FALSE, routingAddress |-> <<>>]}
    \cup {[has |-> TRUE, hasRoutingAddress |-> TRUE, routingAddress |-> a] :
            a \in Addrs \cup OtherAddrs}

UuidShapes ==
    {[has |-> FALSE, bytes |-> <<>>]} \cup {[has |-> TRUE, bytes |-> u] : u \in Uuids}

NoSessionInfo == [has |-> FALSE, bytes |-> <<>>]

\* the tag an honest peer holding the private half of info.publicKey sends with
\* info in answer to request uuid: HMAC-SHA256, keyed with
\* HMAC(shared key, "session info"), over TAG_SIGNATURE_TYPE, 1, HMAC,
\* TAG_PERSONALIZATION, |vin|, vin, TAG_CHALLENGE, |uuid|, uuid, TAG_END, info
PeerTag(info, uuid) ==
    [len |-> DIGEST_LENGTH,
     key |-> <<SharedKey(info.publicKey, LocalKey), "session info">>,
     data |-> <<TAG_SIGNATURE_TYPE, 1, SIGNATURE_TYPE_HMAC>>
              \o <<TAG_PERSONALIZATION, Len(Vin)>> \o Vin
              \o <<TAG_CHALLENGE, Len(uuid)>> \o uuid
              \o <<TAG_END>> \o EncodeSessionInfo(info),
     flip |-> 0]

\* the tags a response can carry next to info: the peer's tag, the peer's tag
\* with one byte changed, the peer's tag cut to half its length
TagKinds == {"valid", "flipped", "short"}

MakeTag(kind, info, uuid) ==
    CASE kind = "valid" -> PeerTag(info, uuid)
      [] kind = "flipped" -> [PeerTag(info, uuid) EXCEPT !.flip = 1]
      [] kind = "short" -> [PeerTag(info, uuid) EXCEPT !.len = DIGEST_LENGTH \div 2]

NoTag == [len |-> 0, key |-> <<{}, "">>, data |-> <<>>, flip |-> 0]

\* signatureData of a response: absent, without sessionInfoTag, with a
\* sessionInfoTag without tag, or with a tag of kind k
SignatureShapes ==
    {[has |-> FALSE, hasSessionInfoTag |-> FALSE, hasTag |-> FALSE, kind |-> "none"],
     [has |-> TRUE, hasSessionInfoTag |-> FALSE, hasTag |-> FALSE, kind |-> "none"],
     [has |-> TRUE, hasSessionInfoTag |-> TRUE, hasTag |-> FALSE, kind |-> "none"]}
    \cup {[has |-> TRUE, hasSessionInfoTag |-> TRUE, hasTag |-> TRUE, kind |-> k] : k \in TagKinds}

\* CarServer.Response as carServerResponseProto.decode yields it
NoReason == ""

ResponseMessages ==
    {[hasActionStatus |-> FALSE, hasResult |-> FALSE, result |-> 0,
      hasResultReason |-> FALSE, hasPlainText |-> FALSE, plainText |-> NoReason],
     [hasActionStatus |-> TRUE, hasResult |-> FALSE, result |-> 0,
      hasResultReason |-> FALSE, hasPlainText |-> FALSE, plainText |-> NoReason]}
    \cup {[hasActionStatus |-> TRUE, hasResult |-> TRUE, result |-> r,
           hasResultReason |-> FALSE, hasPlainText |-> FALSE, plainText |-> NoReason]
           : r \in Results}
    \cup {[hasActionStatus |-> TRUE, hasResult |-> TRUE, result |-> OPERATIONSTATUS_ERROR,
           hasResultReason |-> TRUE, hasPlainText |-> FALSE, plainText |-> NoReason]}
    \cup {[hasActionStatus |-> TRUE, hasResult |-> TRUE, result |-> OPERATIONSTATUS_ERROR,
           hasResultReason |-> TRUE, hasPlainText |-> TRUE, plainText |-> t]
           : t \in Reasons}

NoMessage == [has |-> FALSE, hasActionStatus |-> FALSE, hasResult |-> FALSE, result |-> 0,
              hasResultReason |-> FALSE, hasPlainText |-> FALSE, plainText |-> NoReason]

Present(msg) == [has |-> TRUE] @@ msg

MakeResponse(from, to, uuid, si, sd, msg) ==
    [fromDestination |-> from, toDestination |-> to, requestUuid |-> uuid,
     sessionInfo |-> si,
     signatureData |->
        [has |-> sd.has, hasSessionInfoTag |-> sd.hasSessionInfoTag, hasTag |-> sd.hasTag,
         tag |-> IF sd.hasTag /\ si.has
                 THEN MakeTag(sd.kind, DecodeSessionInfo(si.bytes), uuid.bytes)
                 ELSE NoTag],
     protobufMessageAsBytes |-> msg]

\* the envelope that answers, as the protocol prescribes, a request sent to
\* DOMAIN_INFOTAINMENT from routing address addr with request uuid uuid
FromOf(addr, uuid) == [has |-> TRUE, hasDomain |-> TRUE, domain |-> DOMAIN_INFOTAINMENT]
ToOf(addr, uuid) == [has |-> TRUE, hasRoutingAddress |-> TRUE, routingAddress |-> addr]
UuidOf(addr, uuid) == [has |-> TRUE, bytes |-> uuid]

\* the session info that starts at clock time 0 and counter 0 under a good key
PlainInfos ==
    {x \in SessionInfos : x.clockTime = 0 /\ x.counter = Wide(0) /\ x.publicKey \in PeerKeys}

\* the contents a response can have: a session info with a tag of each kind; a
\* session info with each other shape of signature block; a CarServer.Response of
\* each shape, or nothing; one with a signature block; a session info with a
\* good tag and a CarServer.Response
Bodies ==
    {[si |-> [has |-> TRUE, bytes |-> EncodeSessionInfo(info)], sd |-> sd, msg |-> NoMessage] :
        info \in SessionInfos, sd \in {x \in SignatureShapes : x.hasTag}}
    \cup
    {[si |-> [has |-> TRUE, bytes |-> EncodeSessionInfo(info)], sd |-> sd, msg |-> NoMessage] :
        info \in PlainInfos, sd \in {x \in SignatureShapes : ~x.hasTag}}
    \cup
    {[si |-> NoSessionInfo, sd |-> sd, msg |-> msg] :
        sd \in {x \in SignatureShapes : ~x.has},
        msg \in {NoMessage} \cup {Present(m) : m \in ResponseMessages}}
    \cup
    {[si |-> ssi, sd |-> sd, msg |-> Present(m)] :
        ssi \in {NoSessionInfo}
                \cup {[has |-> TRUE, bytes |-> EncodeSessionInfo(info)] : info \in PlainInfos},
        sd \in {x \in SignatureShapes : x.kind = "valid"},
        m \in {x \in ResponseMessages : x.hasResult /\ x.result = OPERATIONSTATUS_OK}}

\* the contents tried inside every shape of envelope: those that a correct
\* envelope would make install a Signer or end a command without error
CoreBodies ==
    {b \in Bodies :
        \/ /\ b.si.has /\ b.sd.kind = "valid" /\ ~b.msg.has
           /\ DecodeSessionInfo(b.si.bytes) \in PlainInfos
        \/ /\ ~b.si.has /\ ~b.sd.has /\ b.msg.has /\ b.msg.hasResult
           /\ b.msg.result = OPERATIONSTATUS_OK}

\* the envelopes that differ from the one answering the request in the source
\* only, in the destination only, in the request uuid only, or in all three
Envelopes(addr, uuid) ==
    {[from |-> f, to |-> ToOf(addr, uuid), uuid |-> UuidOf(addr, uuid)] : f \in FromShapes}
    \cup {[from |-> FromOf(addr, uuid), to |-> t, uuid |-> UuidOf(addr, uuid)] : t \in ToShapes}
    \cup {[from |-> FromOf(addr, uuid), to |-> ToOf(addr, uuid), uuid |-> u] : u \in UuidShapes}
    \cup {[from |-> f, to |-> t, uuid |-> u] :
            f \in {x \in FromShapes : ~x.has}, t \in {x \in ToShapes : ~x.has},
            u \in {x \in UuidShapes : ~x.has}}

\* the responses the transport can deliver to a request from addr with request
\* uuid uuid: every contents in the envelope that answers it, and the core
\* contents in every envelope
ResponseTable ==
    [addr \in Addrs, uuid \in Uuids |->
        {MakeResponse(FromOf(addr, uuid), ToOf(addr, uuid), UuidOf(addr, uuid),
                      b.si, b.sd, b.msg) : b \in Bodies}
        \cup
        {MakeResponse(e.from, e.to, e.uuid, b.si, b.sd, b.msg) :
            e \in Envelopes(addr, uuid), b \in CoreBodies}]

ResponsesTo(req) == ResponseTable[req.fromDestination.routingAddress, req.uuid]

(***************************************************************************)
(* CarServer (CarServer.js 16-108).                                        *)
(***************************************************************************)
VARIABLES
    signer,      \* this.signer
    inflight,    \* the requests handed to api.signedCommand and not yet answered, by operation
    nops,        \* operations started so far (the last operation's number)
    validated,   \* the Signer instances in use for which validateSessionInfo returned true
    issued,      \* the counters of the signature blocks that this.signer has returned
    last,        \* what the last step did
    offered,     \* the session info that this.signer was constructed from
    access_token,      \* FleetApi: this.access_token
    refresh_token,     \* FleetApi: this.refresh_token
    cb_refreshToken,   \* FleetApi: this.cb_refreshToken, as what it does when invoked
    calls,       \* FleetApi: the API calls under way, each with its position in the code
    running,     \* the operation that holds the thread between two of its steps (0: none)
    md           \* a Metadata object in use, with what has been asked of it

carVars == <<signer, inflight, nops, validated, issued, last, offered>>
apiVars == <<access_token, refresh_token, cb_refreshToken, calls, running>>
vars == <<carVars, apiVars, md>>

Pending == DOMAIN inflight

\* as ProvenanceError, without the check of the request uuid
ProvenanceErrorNoUuid(res, req) ==
    IF ~res.fromDestination.has THEN ErrMissingSource
    ELSE IF \/ ~res.fromDestination.hasDomain
            \/ res.fromDestination.domain # req.toDestination.domain
    THEN ErrSourceDomain
    ELSE IF ~res.toDestination.has THEN ErrMissingDestination
    ELSE IF \/ ~res.toDestination.hasRoutingAddress
            \/ res.toDestination.routingAddress # req.fromDestination.routingAddress
    THEN ErrDestinationAddress
    ELSE NoError

\* the checks of the response's source, destination and request id
\* (CarServer.js 30-40): the message of the error thrown, or NoError
ProvenanceError(res, req) ==
    IF ~res.fromDestination.has THEN ErrMissingSource
    ELSE IF \/ ~res.fromDestination.hasDomain
            \/ res.fromDestination.domain # req.toDestination.domain
    THEN ErrSourceDomain
    ELSE IF ~res.toDestination.has THEN ErrMissingDestination
    ELSE IF \/ ~res.toDestination.hasRoutingAddress
            \/ res.toDestination.routingAddress # req.fromDestination.routingAddress
    THEN ErrDestinationAddress
    ELSE IF ~res.requestUuid.has THEN ErrMissingUuid
    ELSE NoError

\* as Throw, with the session torn down by every exception
ThrowResetting(cur, err) ==
    [signer |-> NoSigner, err |-> err, ret |-> "none", check |-> "none"]

\* an exception thrown by #sendRequest where it has not assigned this.signer
\* (CarServer.js 31, 33, 35, 38, 40, 45, 47, 59): this.signer stays cur
Throw(cur, err) == [signer |-> cur, err |-> err, ret |-> "none", check |-> "none"]

\* #sendRequest(req) from the moment signedCommand has answered res
\* (CarServer.js 28-60), run at local time nowSec with this.signer = cur; a Signer
\* it constructs is instance id.  signer: this.signer afterwards; err: the
\* exception; ret: what is returned; check: how validateSessionInfo ended.
sendRequest(cur, req, res, id, nowSec) ==
    LET out(s, e, r, c) == [signer |-> s, err |-> e, ret |-> r, check |-> c]
        perr == ProvenanceError(res, req)
        sessionInfo == DecodeSessionInfo(res.sessionInfo.bytes)
        made == NewSigner(id, LocalKey, Vin, sessionInfo, nowSec)
        valid == validateSessionInfo(made.signer, res.sessionInfo.bytes,
                                     res.requestUuid.bytes, res.signatureData.tag)
    IN  IF perr # NoError THEN Throw(cur, perr)
        ELSE IF res.sessionInfo.has /\ res.signatureData.has
        THEN IF ~res.signatureData.hasSessionInfoTag \/ ~res.signatureData.hasTag
             THEN Throw(cur, ErrMissingTag)
             ELSE IF made.err # NoError THEN Throw(cur, made.err)
             ELSE IF valid.err # NoError THEN out(made.signer, valid.err, "none", "raised")
             ELSE IF ~valid.ret THEN out(NoSigner, ErrHmacInvalid, "none", "false")
             ELSE out(made.signer, NoError, "sessionInfo", "true")
        ELSE IF res.protobufMessageAsBytes.has THEN out(cur, NoError, "response", "none")
        ELSE Throw(cur, ErrInvalidResponse)

\* as decodeError, without the plain text of the reason
decodeErrorGeneric(msg) == ErrUnknownReason

\* #decodeError(resultReason) (CarServer.js 72-75): the message of the Error that
\* #requestAction throws for a result reason
decodeError(msg) ==
    IF msg.hasPlainText THEN msg.plainText ELSE ErrUnknownReason

\* the end of #requestAction (CarServer.js 90-103) on what #sendRequest returned:
\* the message of the error thrown, or NoError when it returns
requestActionResult(ret, msg) ==
    IF ret = "response" /\ msg.hasActionStatus /\ msg.hasResult
    THEN IF msg.result = OPERATIONSTATUS_OK THEN NoError
         ELSE IF msg.result = OPERATIONSTATUS_ERROR
         THEN IF msg.hasResultReason THEN decodeError(msg) ELSE ErrUnknownError
         ELSE ErrInvalidResult
    ELSE NoError

\* as requestActionSign, with the check of this.signer returning instead of throwing
requestActionSignUnguarded(cur, encodedPayload, nowSec) ==
    IF cur = NoSigner
    THEN [signer |-> cur, err |-> NoError, sig |-> [has |-> FALSE], signed |-> FALSE]
    ELSE [signed |-> TRUE]
         @@ generateSignature(cur, encodedPayload, DOMAIN_INFOTAINMENT, COMMAND_TTL, nowSec)

\* the start of #requestAction (CarServer.js 77-81) with this.signer = cur;
\* signed: generateSignature was called
requestActionSign(cur, encodedPayload, nowSec) ==
    IF cur = NoSigner
    THEN [signer |-> cur, err |-> ErrNotStarted, sig |-> [has |-> FALSE], signed |-> FALSE]
    ELSE [signed |-> TRUE]
         @@ generateSignature(cur, encodedPayload, DOMAIN_INFOTAINMENT, COMMAND_TTL, nowSec)

\* the request object of startSession (CarServer.js 64-69)
SessionRequest(addr, uuid) ==
    [op |-> "startSession",
     toDestination |-> [domain |-> DOMAIN_INFOTAINMENT],
     fromDestination |-> [routingAddress |-> addr],
     payload |-> <<>>, signatureData |-> [has |-> FALSE], uuid |-> uuid]

\* the request object of #requestAction (CarServer.js 82-89)
ActionRequest(addr, uuid, encodedPayload, signature) ==
    [op |-> "chargingSetLimit",
     toDestination |-> [domain |-> DOMAIN_INFOTAINMENT],
     fromDestination |-> [routingAddress |-> addr],
     payload |-> encodedPayload, signatureData |-> signature, uuid |-> uuid]

(***************************************************************************)
(* What a step did, for the properties below.                              *)
(***************************************************************************)
NoFacts ==
    [provenance |-> FALSE, session |-> "none", check |-> "none", command |-> FALSE,
     status |-> "absent", reason |-> NoReason]

\* step: "call" (an operation runs up to its await, or throws before it),
\* "settle" (the await ends and the operation runs to its end)
Event(op, step, id, err, sent, signed, expiresAt, facts) ==
    [op |-> op, step |-> step, id |-> id, err |-> err, sent |-> sent,
     signed |-> signed, expiresAt |-> expiresAt, facts |-> facts]

\* what the response is, read off its fields.  provenance: it comes from the
\* domain the request went to, goes to the address the request came from and has
\* a request uuid; session: it carries a session info and a signature block,
\* "untagged", or with a tag "equal" to the peer's tag for it or one that "differs";
\* command: it is a CarServer.Response and no session info with signature block
FactsOf(res, req) ==
    LET msg == res.protobufMessageAsBytes IN
    [provenance |->
        /\ res.fromDestination.has /\ res.fromDestination.hasDomain
        /\ res.fromDestination.domain = DOMAIN_INFOTAINMENT
        /\ res.toDestination.has /\ res.toDestination.hasRoutingAddress
        /\ res.toDestination.routingAddress = req.fromDestination.routingAddress
        /\ res.requestUuid.has,
     session |->
        IF ~(res.sessionInfo.has /\ res.signatureData.has) THEN "none"
        ELSE IF ~(res.signatureData.hasSessionInfoTag /\ res.signatureData.hasTag)
        THEN "untagged"
        ELSE IF res.signatureData.tag
                  = PeerTag(DecodeSessionInfo(res.sessionInfo.bytes), res.requestUuid.bytes)
        THEN "equal" ELSE "differs",
     check |-> "none",
     command |-> msg.has /\ ~(res.sessionInfo.has /\ res.signatureData.has),
     status |->
        IF ~(msg.has /\ msg.hasActionStatus /\ msg.hasResult) THEN "absent"
        ELSE IF msg.result = OPERATIONSTATUS_OK THEN "ok"
        ELSE IF msg.result = OPERATIONSTATUS_ERROR THEN "error"
        ELSE "other",
     reason |-> IF msg.has /\ msg.hasResultReason /\ msg.hasPlainText
                THEN msg.plainText ELSE NoReason]

\* the local times at which the answer res can be handled, as far as they can
\* make a difference: the clock is read only to build a Signer from a session info
ClockRead(res) ==
    IF res.sessionInfo.has THEN Clock ELSE {CHOOSE t \in Clock : \A u \in Clock : t <= u}

\* no session info: this.signer is null
NoInfo == [publicKey |-> <<>>, clockTime |-> 0, epoch |-> <<>>, counter |-> Wide(0)]

(***************************************************************************)
(* FleetApi (FleetApi.js 56-176): the values of its fields.                *)
(***************************************************************************)
NoToken == 0                             \* a token that is null
\* the pair of tokens of OAuth response n; response 0 stands for the pair the
\* constructor was given
AccessOf(n) == 100 + n
RefreshOf(n) == 200 + n
OAuthResponses == {1, 2}
\* this.cb_refreshToken: never registered, a function that returns, a function
\* that throws
NoCallback == "undefined"
Callbacks == {"returns", "throws"}

\* new Metadata(context) for the HMAC of a command, nothing asked of it yet
NewMd ==
    [meta |-> NewMetadata(newHMAC([key |-> SharedKey(LocalKey, <<4, 11>>)],
                                  "authenticated command")),
     asked |-> << >>, done |-> FALSE, payload |-> << >>, digest |-> NoTag]

\* new CarServer(api, vin, key)
CarInit ==
    /\ signer = NoSigner
    /\ inflight = << >>
    /\ nops = 0
    /\ validated = {}
    /\ issued = {}
    /\ last = Event("new", "call", 0, NoError, FALSE, FALSE, 0, NoFacts)
    /\ offered = NoInfo

\* new FleetApi(client_id, access_token, refresh_token)
ApiInit(access, refresh) ==
    /\ access_token = access
    /\ refresh_token = refresh
    /\ cb_refreshToken = NoCallback
    /\ calls = << >>
    /\ running = 0

Init ==
    /\ CarInit
    /\ ApiInit(AccessOf(0), RefreshOf(0))
    /\ md = NewMd

Without(f, id) == [x \in DOMAIN f \ {id} |-> f[x]]

\* startSession() up to the await of signedCommand
StartSession(addr, uuid) ==
    /\ nops < MaxOps
    /\ Cardinality(Pending) < MaxInflight
    /\ nops' = nops + 1
    /\ inflight' = inflight @@ (nops + 1 :> SessionRequest(addr, uuid))
    /\ last' = Event("startSession", "call", nops + 1, NoError, TRUE, FALSE, 0, NoFacts)
    /\ UNCHANGED <<signer, validated, issued, offered>>

\* chargingSetLimit(percent) at local time nowSec, up to the await of
\* signedCommand or to the exception thrown before it
ChargingSetLimit(percent, addr, uuid, nowSec) ==
    LET encodedPayload == EncodeAction(percent)
        s == requestActionSign(signer, encodedPayload, nowSec)
        started == s.err # ErrNotStarted
        id == IF started THEN nops + 1 ELSE 0
        expiresAt == IF signer = NoSigner THEN 0 ELSE nowSec + COMMAND_TTL - signer.timeZero
    IN  /\ started => nops < MaxOps /\ Cardinality(Pending) < MaxInflight
        /\ nops' = IF started THEN nops + 1 ELSE nops
        /\ signer' = s.signer
        /\ UNCHANGED <<validated, offered>>
        /\ IF s.err # NoError
           THEN /\ last' = Event("chargingSetLimit", "call", id, s.err, FALSE, s.signed,
                                  expiresAt, NoFacts)
                /\ UNCHANGED <<inflight, issued>>
           ELSE /\ issued' = IF s.sig.has THEN issued \cup {s.sig.counter} ELSE issued
                /\ inflight' = inflight @@ (id :> ActionRequest(addr, uuid, encodedPayload, s.sig))
                /\ last' = Event("chargingSetLimit", "call", id, NoError, TRUE, s.signed,
                                  expiresAt, NoFacts)

\* signedCommand throws (a transport failure): the operation ends with that error
TransportFails(id) ==
    /\ id \in Pending
    /\ inflight' = Without(inflight, id)
    /\ last' = Event(inflight[id].op, "settle", id, ErrTransport, FALSE, FALSE, 0, NoFacts)
    /\ UNCHANGED <<signer, nops, validated, issued, offered>>

\* signedCommand answers res at local time nowSec: #sendRequest runs to its end,
\* and after it startSession or #requestAction
TransportAnswers(id, res, nowSec) ==
    /\ id \in Pending
    /\ LET req == inflight[id]
           r == sendRequest(signer, req, res, id, nowSec)
           err == IF r.err # NoError \/ req.op = "startSession" THEN r.err
                  ELSE requestActionResult(r.ret, res.protobufMessageAsBytes)
       IN  /\ signer' = r.signer
           /\ validated' = IF r.check = "true" THEN {id} ELSE validated \cap {r.signer.id}
           /\ issued' = IF r.signer = signer THEN issued ELSE {}
           /\ offered' = IF r.signer = signer THEN offered
                         ELSE IF r.signer = NoSigner THEN NoInfo
                         ELSE DecodeSessionInfo(res.sessionInfo.bytes)
           /\ inflight' = Without(inflight, id)
           /\ last' = Event(req.op, "settle", id, err, FALSE, FALSE, 0,
                             [FactsOf(res, req) EXCEPT !.check = r.check])
    /\ UNCHANGED nops

\* the transport is one round trip that answers or fails: the fields of FleetApi
\* stay as constructed, and no Metadata object is used on its own
Next ==
    \/ \E addr \in Addrs, uuid \in Uuids :
          StartSession(addr, uuid) /\ UNCHANGED <<apiVars, md>>
    \/ \E percent \in Percents, addr \in Addrs, uuid \in Uuids, nowSec \in Clock :
          ChargingSetLimit(percent, addr, uuid, nowSec) /\ UNCHANGED <<apiVars, md>>
    \/ \E id \in Pending : TransportFails(id) /\ UNCHANGED <<apiVars, md>>
    \/ \E id \in Pending :
          \E res \in ResponsesTo(inflight[id]) :
             \E nowSec \in ClockRead(res) :
                TransportAnswers(id, res, nowSec) /\ UNCHANGED <<apiVars, md>>

Spec == Init /\ [][Next]_vars

(***************************************************************************)
(* FleetApi (FleetApi.js 56-176) under CarServer: every await of the code  *)
(* is a position of a call, and a step runs a call from one await to the   *)
(* next.  The server decides how each HTTP request ends.                   *)
(***************************************************************************)
REFRESH_ATTEMPTS == 3                    \* refreshToken: retry < 3
REFRESH_PAUSE == 500                     \* refreshToken: setTimeout(resolve, 500)
ErrOAuth == "Unauthorized (401)"         \* an ApiError of #oauthCall
ErrCallback == "callback failed"         \* an Error thrown by the registered callback
RefreshSuffix == " - Unable to refresh Token"

Active == DOMAIN calls

\* the thread is free for a step of operation id: JavaScript runs one operation
\* at a time, from one await to the next
Free(id) == running \in {0, id}

\* as AfterSign, with an await between generateSignature and the send
AfterSignYield(id) == 0

\* who holds the thread when #requestAction has called generateSignature
\* (CarServer.js 81): the same call, which goes on to build and send the request
\* (CarServer.js 82-89) with no await in between
AfterSign(id) == id

\* refreshToken's catch: another attempt follows (FleetApi.js 108)
RetryAllowed(retry) == retry < REFRESH_ATTEMPTS

\* the request of an API call that is no signed command
PlainRequest(api) == [op |-> api, signatureData |-> [has |-> FALSE]]

\* a call at position pc.  https: the HTTP requests #apiCall has issued for it,
\* each with the same path, method and params; retry, arg: the parameters of the
\* refreshToken attempt under way; oauths, waited, cbs: the OAuth requests, the
\* milliseconds paused and the callback invocations of the top-level
\* refreshToken under way
Call(api, pc, req, https, retry, arg, oauths, waited, cbs) ==
    [api |-> api, pc |-> pc, req |-> req, https |-> https,
     retry |-> retry, arg |-> arg, oauths |-> oauths, waited |-> waited, cbs |-> cbs]

\* #apiCall up to its await of axios.request (FleetApi.js 117-130), for the
\* n-th time in one API call
Requesting(api, req, n) ==
    Call(api, "request", req, n, 0, NoToken, 0, 0, 0)

\* refreshToken(arg) up to its await of #oauthCall (FleetApi.js 93-99), the
\* first attempt of a top-level call
Refreshing(c, arg) ==
    [c EXCEPT !.pc = "oauth", !.retry = 1, !.arg = arg, !.oauths = 1, !.waited = 0,
              !.cbs = 0]

\* what a step of the transport did: the error caught, the OAuth requests, the
\* pause and the callback invocations of the refreshToken call so far, the OAuth
\* response received (0: none)
ApiFacts(caught, c, got) ==
    [caught |-> caught, oauths |-> c.oauths, waited |-> c.waited, cbs |-> c.cbs,
     got |-> got]

ApiEvent(c, step, id, err, sent, facts) ==
    Event(c.req.op, step, id, err, sent, FALSE, 0, facts)

\* the requests that CarServer passes to signedCommand, encoded: the one
\* of startSession, and a command signed by a Signer of a session info
ApiCommands ==
    {SessionRequest(addr, uuid) : addr \in Addrs, uuid \in Uuids}
    \cup {ActionRequest(addr, uuid, EncodeAction(percent),
                        generateSignature(NewSigner(1, LocalKey, Vin, info, t).signer,
                                          EncodeAction(percent), DOMAIN_INFOTAINMENT,
                                          COMMAND_TTL, t).sig) :
            addr \in Addrs, uuid \in Uuids, percent \in Percents, info \in PlainInfos,
            t \in {CHOOSE u \in Clock : \A v \in Clock : u <= v}}

ApiCanStart == nops < MaxApiCalls /\ Cardinality(Active) < MaxApiActive

\* a call of api with request req, up to the await of axios.request in #apiCall
\* (FleetApi.js 117-130)
ApiStart(api, req) ==
    LET id == nops + 1
        c == Requesting(api, req, 1)
    IN  /\ ApiCanStart
        /\ nops' = id
        /\ calls' = calls @@ (id :> c)
        /\ last' = ApiEvent(c, "call", id, NoError, TRUE, ApiFacts(NoError, c, 0))
        /\ UNCHANGED <<access_token, refresh_token, cb_refreshToken>>

\* signedCommand(vin, byteBuffer) (FleetApi.js 169-172)
SignedCommand(req) == ApiStart("signedCommand", req)

\* getVehicles() (FleetApi.js 147-149); getVehicle and getVehicleData differ in
\* the path only
GetVehicles == ApiStart("getVehicles", PlainRequest("getVehicles"))

\* refreshToken(this.refresh_token) called by the user, up to the await of
\* #oauthCall (FleetApi.js 93-99)
RefreshToken ==
    LET id == nops + 1
        c == Refreshing(Call("refreshToken", "oauth", PlainRequest("refreshToken"),
                             0, 0, NoToken, 0, 0, 0),
                        refresh_token)
    IN  /\ ApiCanStart
        /\ nops' = id
        /\ calls' = calls @@ (id :> c)
        /\ last' = ApiEvent(c, "call", id, NoError, TRUE, ApiFacts(NoError, c, 0))
        /\ UNCHANGED <<access_token, refresh_token, cb_refreshToken>>

\* onTokenRefresh(callback) (FleetApi.js 89-91)
OnTokenRefresh(callback) ==
    /\ cb_refreshToken' = callback
    /\ UNCHANGED <<access_token, refresh_token, calls, nops, last>>

\* the server answers 200: #apiCall returns the data (FleetApi.js 131), and
\* signedCommand the response in it (FleetApi.js 174)
HttpAnswers(id) ==
    /\ id \in Active /\ calls[id].pc = "request"
    /\ calls' = Without(calls, id)
    /\ last' = ApiEvent(calls[id], "settle", id, NoError, FALSE,
                        ApiFacts(NoError, calls[id], 0))
    /\ UNCHANGED <<access_token, refresh_token, cb_refreshToken, nops>>

\* the request ends in an ApiError: no answer, a status other than 401, a 401
\* while this.refresh_token is null (FleetApi.js 133-143), or a 200 without the
\* property response (FleetApi.js 173)
HttpFails(id) ==
    /\ id \in Active /\ calls[id].pc = "request"
    /\ calls' = Without(calls, id)
    /\ last' = ApiEvent(calls[id], "settle", id, ErrTransport, FALSE,
                        ApiFacts(ErrTransport, calls[id], 0))
    /\ UNCHANGED <<access_token, refresh_token, cb_refreshToken, nops>>

\* the server answers 401 and this.refresh_token is not null: #apiCall calls
\* refreshToken(this.refresh_token), which runs up to its await of #oauthCall
\* (FleetApi.js 133-136, 93-99)
HttpUnauthorized(id) ==
    /\ id \in Active /\ calls[id].pc = "request"
    /\ refresh_token # NoToken
    /\ calls[id].https < MaxHttp
    /\ LET c == Refreshing(calls[id], refresh_token) IN
       /\ calls' = [calls EXCEPT ![id] = c]
       /\ last' = ApiEvent(c, "unauthorized", id, NoError, TRUE, ApiFacts(NoError, c, 0))
    /\ UNCHANGED <<access_token, refresh_token, cb_refreshToken, nops>>

\* the catch of refreshToken (FleetApi.js 107-114) on error, in call c: the
\* pause before another attempt, or error is thrown with its message extended;
\* thrown out of refreshToken, it leaves #apiCall and signedCommand as it is
RefreshCatch(id, c, error) ==
    IF RetryAllowed(c.retry)
    THEN /\ calls' = [calls EXCEPT ![id] = [c EXCEPT !.pc = "pause"]]
         /\ last' = ApiEvent(c, "refused", id, NoError, FALSE, ApiFacts(error, c, 0))
    ELSE /\ calls' = Without(calls, id)
         /\ last' = ApiEvent(c, "settle", id, error \o RefreshSuffix, FALSE,
                             ApiFacts(error, c, 0))

\* the OAuth server answers response n: refreshToken stores its tokens and
\* invokes the callback (FleetApi.js 100-104); then it returns (105), and the
\* user's call ends or #apiCall calls itself and runs up to its await of
\* axios.request (FleetApi.js 137, 117-130); or the callback has thrown (107)
OAuthAnswers(id, n) ==
    /\ id \in Active /\ calls[id].pc = "oauth"
    /\ refresh_token' = RefreshOf(n)
    /\ access_token' = AccessOf(n)
    /\ LET invoked == IF cb_refreshToken = NoCallback THEN 0 ELSE 1
           c == [calls[id] EXCEPT !.cbs = @ + invoked]
       IN  IF cb_refreshToken = "throws"
           THEN RefreshCatch(id, c, ErrCallback)
           ELSE IF c.api = "refreshToken"
           THEN /\ calls' = Without(calls, id)
                /\ last' = ApiEvent(c, "settle", id, NoError, FALSE, ApiFacts(NoError, c, n))
           ELSE /\ calls' = [calls EXCEPT ![id] = Requesting(c.api, c.req, c.https + 1)]
                /\ last' = ApiEvent(c, "refreshed", id, NoError, TRUE, ApiFacts(NoError, c, n))
    /\ UNCHANGED <<cb_refreshToken, nops>>

\* the OAuth request ends in an ApiError of #oauthCall (FleetApi.js 80-86)
OAuthFails(id) ==
    /\ id \in Active /\ calls[id].pc = "oauth"
    /\ RefreshCatch(id, calls[id], ErrOAuth)
    /\ UNCHANGED <<access_token, refresh_token, cb_refreshToken, nops>>

\* the pause of refreshToken ends: it calls itself with retry + 1 and runs up to
\* its await of #oauthCall (FleetApi.js 109-110, 93-99)
PauseEnds(id) ==
    /\ id \in Active /\ calls[id].pc = "pause"
    /\ LET c == [calls[id] EXCEPT !.pc = "oauth", !.retry = @ + 1, !.oauths = @ + 1,
                                  !.waited = @ + REFRESH_PAUSE]
       IN  /\ calls' = [calls EXCEPT ![id] = c]
           /\ last' = ApiEvent(c, "resumed", id, NoError, TRUE, ApiFacts(NoError, c, 0))
    /\ UNCHANGED <<access_token, refresh_token, cb_refreshToken, nops>>

\* new FleetApi(client_id, access_token, refresh_token), with or without a
\* refresh token
InitApi ==
    /\ CarInit
    /\ \E refresh \in {NoToken, RefreshOf(0)} : ApiInit(AccessOf(0), refresh)
    /\ md = NewMd

\* what no call of FleetApi touches: the CarServer that uses it, and the rest
ApiFrame == UNCHANGED <<signer, inflight, validated, issued, offered, running, md>>

NextApi ==
    \/ \E req \in ApiCommands : SignedCommand(req) /\ ApiFrame
    \/ GetVehicles /\ ApiFrame
    \/ RefreshToken /\ ApiFrame
    \/ \E callback \in Callbacks : OnTokenRefresh(callback) /\ ApiFrame
    \/ \E id \in Active : HttpAnswers(id) /\ ApiFrame
    \/ \E id \in Active : HttpFails(id) /\ ApiFrame
    \/ \E id \in Active : HttpUnauthorized(id) /\ ApiFrame
    \/ \E id \in Active : \E n \in OAuthResponses : OAuthAnswers(id, n) /\ ApiFrame
    \/ \E id \in Active : OAuthFails(id) /\ ApiFrame
    \/ \E id \in Active : PauseEnds(id) /\ ApiFrame

SpecApi == InitApi /\ [][NextApi]_vars

(***************************************************************************)
(* CarServer with several operations under way at one time.  A command is   *)
(* two steps here, the call of generateSignature and the send, so that what *)
(* can come between them is decided by who holds the thread.               *)
(***************************************************************************)
\* the answers of the vehicle that the transport returns: a session info with
\* the peer's tag, or an OK CarServer.Response
ServerResponses(req) ==
    LET addr == req.fromDestination.routingAddress
        uuid == req.uuid
    IN  {MakeResponse(FromOf(addr, uuid), ToOf(addr, uuid), UuidOf(addr, uuid),
                      b.si, b.sd, b.msg) : b \in CoreBodies}

\* the operations under way: signed and not yet sent, or awaiting the transport
Underway == Active \cup Pending

CanStart == nops < MaxCalls /\ Cardinality(Underway) < MaxActive /\ Free(nops + 1)

\* startSession() up to the await of signedCommand (CarServer.js 63-70, 24-27)
ConcStartSession(addr, uuid) ==
    LET id == nops + 1 IN
    /\ CanStart
    /\ nops' = id
    /\ inflight' = inflight @@ (id :> SessionRequest(addr, uuid))
    /\ last' = Event("startSession", "call", id, NoError, TRUE, FALSE, 0, NoFacts)
    /\ UNCHANGED <<signer, validated, issued, offered, calls, running>>

\* chargingSetLimit(percent) at local time nowSec, up to the return of
\* generateSignature or to the exception thrown (CarServer.js 105-107, 77-81)
SendCommandSign(percent, addr, uuid, nowSec) ==
    LET encodedPayload == EncodeAction(percent)
        s == requestActionSign(signer, encodedPayload, nowSec)
        started == s.err # ErrNotStarted
        id == IF started THEN nops + 1 ELSE 0
        expiresAt == IF signer = NoSigner THEN 0 ELSE nowSec + COMMAND_TTL - signer.timeZero
        req == ActionRequest(addr, uuid, encodedPayload, s.sig)
    IN  /\ IF started THEN CanStart ELSE Free(0)
        /\ nops' = IF started THEN nops + 1 ELSE nops
        /\ signer' = s.signer
        /\ IF s.err # NoError
           THEN /\ last' = Event("chargingSetLimit", "call", id, s.err, FALSE, s.signed,
                                  expiresAt, NoFacts)
                /\ UNCHANGED <<calls, running>>
           ELSE /\ calls' = calls @@ (id :> Call("signedCommand", "signed", req,
                                                 0, 0, NoToken, 0, 0, 0))
                /\ running' = AfterSign(id)
                /\ last' = Event("chargingSetLimit", "call", id, NoError, FALSE, s.signed,
                                  expiresAt, NoFacts)
        /\ UNCHANGED <<inflight, validated, issued, offered>>

\* #requestAction from the return of generateSignature to the await of
\* signedCommand (CarServer.js 82-89, 24-27): the signed request goes to the
\* transport
SendCommandHandOver(id) ==
    /\ id \in Active /\ calls[id].pc = "signed" /\ Free(id)
    /\ LET req == calls[id].req IN
       /\ inflight' = inflight @@ (id :> req)
       /\ issued' = issued \cup {req.signatureData.counter}
       /\ last' = Event(req.op, "send", id, NoError, TRUE, FALSE, 0, NoFacts)
    /\ calls' = Without(calls, id)
    /\ running' = 0
    /\ UNCHANGED <<signer, nops, validated, offered>>

\* signedCommand throws, while no operation holds the thread
ConcFails(id) ==
    /\ Free(id)
    /\ TransportFails(id)
    /\ UNCHANGED <<calls, running>>

\* signedCommand answers res, while no operation holds the thread
ConcAnswers(id, res, nowSec) ==
    /\ Free(id)
    /\ TransportAnswers(id, res, nowSec)
    /\ UNCHANGED <<calls, running>>

\* what no operation of CarServer touches
ConcFrame == UNCHANGED <<access_token, refresh_token, cb_refreshToken, md>>

NextConcurrent ==
    \/ \E addr \in Addrs, uuid \in Uuids : ConcStartSession(addr, uuid) /\ ConcFrame
    \/ \E percent \in Percents, addr \in Addrs, uuid \in Uuids, nowSec \in Clock :
          SendCommandSign(percent, addr, uuid, nowSec) /\ ConcFrame
    \/ \E id \in Active : SendCommandHandOver(id) /\ ConcFrame
    \/ \E id \in Pending : ConcFails(id) /\ ConcFrame
    \/ \E id \in Pending :
          \E res \in ServerResponses(inflight[id]) :
             \E nowSec \in ClockRead(res) : ConcAnswers(id, res, nowSec) /\ ConcFrame

SpecConcurrent == Init /\ [][NextConcurrent]_vars

(***************************************************************************)
(* Metadata (Signer.js 11-41) on its own: a Metadata object, the calls of   *)
(* add made on it, and the checksum taken at the end.                      *)
(***************************************************************************)
\* a buffer of n bytes
Field(n) == [i \in 1 .. n |-> 0]

MetaTags == {TAG_SIGNATURE_TYPE, TAG_PERSONALIZATION, TAG_COUNTER}
\* null, a short buffer, the longest buffer add takes, the shortest it refuses
MetaValues == {NullValue, <<7>>, Field(FIELD_MAX), Field(FIELD_MAX + 1)}
MetaPayloads == {<< >>, <<80>>}

\* meta.add(tag, value): it returns, or it throws and the caller goes on with
\* the object as the exception left it
AddEntry(tag, value) ==
    LET m == add(md.meta, tag, value) IN
    /\ ~md.done
    /\ Len(md.asked) < MaxEntries
    /\ md' = [md EXCEPT !.meta = [m EXCEPT !.err = NoError],
                        !.asked = Append(@, [tag |-> tag, value |-> value, err |-> m.err])]

\* meta.checksum(payload)
Finish(payload) ==
    /\ ~md.done
    /\ md' = [md EXCEPT !.done = TRUE, !.payload = payload,
                        !.digest = checksum(md.meta, payload)]

NextMetadata ==
    \/ \E tag \in MetaTags, value \in MetaValues :
          AddEntry(tag, value) /\ UNCHANGED <<carVars, apiVars>>
    \/ \E payload \in MetaPayloads : Finish(payload) /\ UNCHANGED <<carVars, apiVars>>

SpecMetadata == Init /\ [][NextMetadata]_vars

(***************************************************************************)
(* Properties.                                                             *)
(***************************************************************************)
ProtocolViolations ==
    {ErrMissingSource, ErrSourceDomain, ErrMissingDestination, ErrDestinationAddress,
     ErrMissingUuid}

\* the errors of #requestAction that carry no reason of the peer
GenericErrors == {ErrUnknownError, ErrUnknownReason, ErrInvalidResult}

Established == signer # NoSigner

\* the last step was the end of operation op on a response (not on a transport failure)
Answered(op) == last.step = "settle" /\ last.op = op /\ last.err # ErrTransport

\* C1: a Signer is retained only if validateSessionInfo returned true for that
\* very Signer, whatever the tag of the response and however validation ended.
C1_RetainedSignerValidated == Established => signer.id \in validated

\* C2: chargingSetLimit on a session without Signer throws, hands nothing to the
\* transport, signs nothing and leaves the session without Signer.
C2_CommandNeedsSession ==
    [][(signer = NoSigner /\ last'.op = "chargingSetLimit" /\ last'.step = "call")
        => /\ last'.err # NoError
           /\ ~last'.sent /\ ~last'.signed
           /\ inflight' = inflight /\ issued' = issued
           /\ signer' = NoSigner]_vars

C2_Witness ==
    /\ last.op = "chargingSetLimit" /\ last.step = "call" /\ last.err = ErrNotStarted
    /\ ~Established /\ nops > 0

\* C3: while this.signer is the same Signer instance its counter never
\* decreases; every call of generateSignature, also one that throws, makes it
\* greater; and a signature block handed to the transport carries the counter
\* just reached, which no block of that Signer carried before.
C3_CounterStrictlyIncreasing ==
    [][(Established /\ signer' # NoSigner /\ signer'.id = signer.id)
        => /\ ~Less(signer'.counter, signer.counter)
           /\ last'.signed => Less(signer.counter, signer'.counter)
           /\ (last'.signed /\ last'.sent)
                => /\ inflight'[last'.id].signatureData.counter = signer'.counter
                   /\ signer'.counter \notin issued
                   /\ issued' = issued \cup {signer'.counter}]_vars

C3_Witness ==
    /\ last.signed /\ last.err = ErrExpiry
    /\ Cardinality(issued) = 1
    /\ \E c \in issued : signer.counter = Inc(c)

\* C4: generateSignature throws the expiry error exactly when
\* expiresAt = now + ttl - clock offset is negative or at least 2^30, and no
\* signature block on its way carries an expiresAt outside 0 .. 2^30 - 1.
C4_ExpiryBound ==
    /\ last.signed =>
          ((last.err = ErrExpiry) <=> (last.expiresAt < 0 \/ last.expiresAt >= EPOCH_LENGTH))
    /\ \A id \in Pending :
          inflight[id].signatureData.has =>
             /\ inflight[id].signatureData.expiresAt >= 0
             /\ inflight[id].signatureData.expiresAt < EPOCH_LENGTH

\* C5: a response that fails one of the three provenance checks (source domain,
\* destination address, request uuid present) is not interpreted: the operation
\* throws a protocol violation and installs, replaces or drops no Signer.
C5_ProvenanceBeforeInterpretation ==
    [][(last'.step = "settle" /\ last'.err # ErrTransport /\ ~last'.facts.provenance)
        => /\ last'.err \in ProtocolViolations
           /\ signer' = signer /\ validated' = validated]_vars

C5_Witness ==
    /\ Answered("startSession") /\ ~last.facts.provenance
    /\ last.facts.session = "equal" /\ last.err = ErrMissingUuid

\* C6: an operation that ends with a protocol violation leaves this.signer as
\* it was: null stays null, and an established session keeps its Signer.
C6_ViolationKeepsSigner ==
    [][(last'.step = "settle" /\ last'.err \in ProtocolViolations) => signer' = signer]_vars

C6_Witness ==
    /\ Answered("chargingSetLimit") /\ last.err = ErrSourceDomain
    /\ Established /\ signer.id \in validated

\* C7: chargingSetLimit returns without error only on a CarServer.Response
\* whose status is OK.
C7_NoSilentFailure ==
    (Answered("chargingSetLimit") /\ last.err = NoError)
        => (last.facts.command /\ last.facts.status = "ok")

\* C8: on a CarServer.Response with status ERROR and plain-text reason r,
\* chargingSetLimit throws an error with message r; with status ERROR and no such
\* reason, or with a status that is neither OK nor ERROR, it throws a generic
\* error; and in each case the request is not handed to the transport again.
C8_RemoteErrorSurfaced ==
    [][(/\ last'.step = "settle" /\ last'.op = "chargingSetLimit"
        /\ last'.facts.provenance /\ last'.facts.command
        /\ last'.facts.status \in {"error", "other"})
        => /\ last'.facts.status = "error" /\ last'.facts.reason # NoReason
                => last'.err = last'.facts.reason
           /\ last'.facts.status = "error" /\ last'.facts.reason = NoReason
                => last'.err \in GenericErrors
           /\ last'.facts.status = "other" => last'.err \in GenericErrors
           /\ ~last'.sent
           /\ DOMAIN inflight' = DOMAIN inflight \ {last'.id}]_vars

C8_Witness ==
    /\ Answered("chargingSetLimit") /\ last.facts.command
    /\ last.facts.status = "error" /\ last.facts.reason = "precondition_failed"
    /\ last.err = "precondition_failed"

\* C9: validateSessionInfo returns true exactly when the tag equals the
\* handshake checksum of the session info, and for every other tag it returns
\* false without throwing.
C9_ValidateNeverThrows ==
    last.facts.check # "none"
        => /\ (last.facts.check = "true") <=> (last.facts.session = "equal")
           /\ last.facts.session = "differs" => last.facts.check = "false"

\* C10: when the tag of a response with session info and signature block
\* fails validation, the operation throws and this.signer is null afterwards.
C10_MismatchTearsDown ==
    last.facts.check \in {"false", "raised"} => (last.err # NoError /\ ~Established)

\* the signed commands awaiting the transport
SignedPending == {id \in Pending : inflight[id].signatureData.has}

\* C11: with several commands under way on one session, the step after a call's
\* generateSignature is the send of that same call, whatever else is under way;
\* so the counter of each signed request handed to the transport is the one
\* this.signer has just reached, greater than the counter of every request that
\* this Signer signed and handed over before (hence equal to none of them).
C11_SignAndSendAtomic ==
    [][/\ (last.op = "chargingSetLimit" /\ last.step = "call" /\ last.signed
           /\ last.err = NoError)
          => (last'.step = "send" /\ last'.id = last.id)
       /\ last'.step = "send"
          => /\ inflight'[last'.id].signatureData.counter = signer.counter
             /\ inflight'[last'.id].signatureData.epoch = signer.epoch
             /\ \A c \in issued : Less(c, inflight'[last'.id].signatureData.counter)
             /\ issued' = issued \cup {inflight'[last'.id].signatureData.counter}]_vars

C11_Witness ==
    /\ Established /\ last.step = "send"
    /\ \E a, b \in SignedPending :
          /\ a # b
          /\ inflight[a].signatureData.epoch = signer.epoch
          /\ inflight[b].signatureData.epoch = signer.epoch
          /\ Less(inflight[a].signatureData.counter, inflight[b].signatureData.counter)
          /\ issued = {inflight[a].signatureData.counter, inflight[b].signatureData.counter}

\* C12: no signed command is transmitted to the server more than once: an API
\* call whose request carries a signature block issues one HTTP request.
C12_SignatureSentOnce ==
    \A id \in Active : calls[id].req.signatureData.has => calls[id].https <= 1

\* C13: one API call issues a number of HTTP requests that the code bounds: it
\* ends before it has issued as many as the server would answer with 401.
C13_RequestsBounded ==
    \A id \in Active : calls[id].https < MaxHttp

\* the call of add that a step of the Metadata object made
Added == md'.asked[Len(md'.asked)]

\* C14: add(tag, value) on a Metadata whose last added tag is L throws the
\* order error exactly when tag < L, also for an absent value; with tag >= L
\* it does nothing for an absent value, throws the length error for a value of
\* more than 255 bytes, and otherwise absorbs tag, length and value and makes
\* tag the last added tag.  A call that throws leaves the object as it was.
C14_AddEntryContract ==
    [][Len(md'.asked) = Len(md.asked) + 1
        => LET L == md.meta.last
               present == Added.value # NullValue
           IN  /\ (Added.err = ErrTagOrder) <=> (Added.tag < L)
               /\ (Added.tag >= L /\ ~present)
                    => (Added.err = NoError /\ md'.meta = md.meta)
               /\ (Added.tag >= L /\ present)
                    => ((Added.err = ErrFieldLength) <=> (Len(Added.value) > FIELD_MAX))
               /\ (Added.tag >= L /\ present /\ Len(Added.value) <= FIELD_MAX)
                    => /\ Added.err = NoError
                       /\ md'.meta.last = Added.tag
                       /\ md'.meta.context.data
                            = md.meta.context.data \o <<Added.tag, Len(Added.value)>>
                              \o Added.value
                       /\ md'.meta.context.key = md.meta.context.key
               /\ Added.err # NoError => md'.meta = md.meta]_vars

C14_Witness ==
    /\ Len(md.asked) = 3
    /\ md.asked[1] = [tag |-> TAG_PERSONALIZATION, value |-> Field(FIELD_MAX), err |-> NoError]
    /\ md.asked[2] = [tag |-> TAG_PERSONALIZATION, value |-> <<7>>, err |-> NoError]
    /\ md.asked[3] = [tag |-> TAG_SIGNATURE_TYPE, value |-> NullValue, err |-> ErrTagOrder]
    /\ md.meta.last = TAG_PERSONALIZATION

\* the bytes of the entries of a sequence of add calls, in call order: tag,
\* length and value of each call that returned with a present value
RECURSIVE EntryBytes(_)
EntryBytes(asked) ==
    IF asked = << >> THEN << >>
    ELSE LET e == Head(asked)
             bytes == IF e.err = NoError /\ e.value # NullValue
                      THEN <<e.tag, Len(e.value)>> \o e.value
                      ELSE << >>
         IN  bytes \o EntryBytes(Tail(asked))

\* C20: the tag that checksum(payload) returns after a sequence of add calls
\* is the digest, under the key of the context, of the entries' bytes in call
\* order (tag, length, value for each entry with a present value, nothing for
\* an absent one), the byte 255 and the payload: it is a function of these
\* inputs alone.
C20_AbsorbedStream ==
    md.done
        => md.digest = [len |-> DIGEST_LENGTH,
                        key |-> NewMd.meta.context.key,
                        data |-> EntryBytes(md.asked) \o <<TAG_END>> \o md.payload,
                        flip |-> 0]

C20_Witness ==
    /\ md.done /\ md.payload = <<80>>
    /\ Len(md.asked) = 3
    /\ md.asked[1] = [tag |-> TAG_SIGNATURE_TYPE, value |-> <<7>>, err |-> NoError]
    /\ md.asked[2] = [tag |-> TAG_PERSONALIZATION, value |-> NullValue, err |-> NoError]
    /\ md.asked[3] = [tag |-> TAG_COUNTER, value |-> <<7>>, err |-> NoError]
    /\ md.digest.data = <<TAG_SIGNATURE_TYPE, 1, 7, TAG_COUNTER, 1, 7, TAG_END, 80>>

\* C15: a startSession on a session without Signer, answered by a response
\* that passes the provenance checks and carries a session info (with a public
\* key on the curve) and the peer's tag for it, returns and leaves a Signer with
\* the epoch and the counter of that session info; the command sent next is
\* signed with that epoch and that counter plus one; and a command answered with
\* status OK returns without error and keeps the Signer.
C15_HappyPath ==
    [][/\ (/\ signer = NoSigner
           /\ last'.step = "settle" /\ last'.op = "startSession"
           /\ last'.facts.provenance /\ last'.facts.session = "equal"
           /\ last'.err # ErrPeerKey)
          => /\ last'.err = NoError
             /\ signer' # NoSigner
             /\ offered' # NoInfo
             /\ signer'.epoch = offered'.epoch
             /\ signer'.counter = offered'.counter
       /\ (/\ Answered("startSession") /\ last.err = NoError /\ Established
           /\ last.facts.session = "equal" /\ signer.id = last.id
           /\ last'.op = "chargingSetLimit" /\ last'.step = "call" /\ last'.sent)
          => /\ inflight'[last'.id].signatureData.has
             /\ inflight'[last'.id].signatureData.epoch = offered.epoch
             /\ inflight'[last'.id].signatureData.counter = Inc(offered.counter)
       /\ (/\ Established
           /\ last'.step = "settle" /\ last'.op = "chargingSetLimit"
           /\ last'.facts.provenance /\ last'.facts.command
           /\ last'.facts.status = "ok")
          => (last'.err = NoError /\ signer' = signer)]_vars

C15_Witness ==
    /\ Answered("chargingSetLimit") /\ last.err = NoError
    /\ last.facts.command /\ last.facts.status = "ok"
    /\ Established /\ signer.id \in validated
    /\ signer.epoch = offered.epoch
    /\ signer.counter = Inc(offered.counter)
    /\ issued = {signer.counter}

\* the calls of FleetApi that a step left under way and that were under way
Continuing == DOMAIN calls \cap DOMAIN calls'

\* C16: one top-level refreshToken call issues at most three OAuth requests.
\* The first comes with the call; a further one is issued only when a pause of
\* 500 ms has ended, and a pause starts only when an OAuth request has failed.
\* An OAuth request that succeeds ends the refresh with no pause and no further
\* request; a third OAuth request that fails ends the call with the error of
\* that request, its message extended once, and with no further request.
C16_RefreshBounded ==
    [][/\ \A id \in DOMAIN calls' :
             /\ calls'[id].oauths <= REFRESH_ATTEMPTS
             /\ calls'[id].pc \in {"oauth", "pause"}
                  => /\ calls'[id].oauths >= 1
                     /\ calls'[id].waited = REFRESH_PAUSE * (calls'[id].oauths - 1)
       /\ \A id \in Continuing :
             /\ (calls'[id].oauths > calls[id].oauths /\ calls[id].pc # "request")
                  => /\ calls[id].pc = "pause"
                     /\ calls'[id].oauths = calls[id].oauths + 1
                     /\ calls'[id].waited = calls[id].waited + REFRESH_PAUSE
             /\ (calls'[id].pc = "pause" /\ calls[id].pc # "pause")
                  => (calls[id].pc = "oauth" /\ last'.facts.caught = ErrOAuth)
             /\ (calls[id].pc = "oauth" /\ calls'[id] # calls[id]
                 /\ last'.facts.caught = ErrOAuth)
                  => /\ calls[id].oauths < REFRESH_ATTEMPTS
                     /\ calls'[id].pc = "pause"
                     /\ calls'[id].oauths = calls[id].oauths
       /\ \A id \in DOMAIN calls \ DOMAIN calls' :
             calls[id].pc = "oauth"
                  => \/ last'.err = NoError
                     \/ /\ calls[id].oauths = REFRESH_ATTEMPTS
                        /\ last'.step = "settle"
                        /\ last'.facts.caught = ErrOAuth
                        /\ last'.err = ErrOAuth \o RefreshSuffix]_vars

\* C17: the tokens change only in a step in which refreshToken succeeds, to
\* the pair of the OAuth response received, with the registered callback invoked
\* once in that refreshToken call; a refreshToken call that ends with an error
\* has invoked no callback and changed no token; and the tokens stored are the
\* constructor's or the pair of one OAuth response.
C17_TokensOnlyOnSuccess ==
    [][/\ (access_token' # access_token \/ refresh_token' # refresh_token)
          => /\ last'.facts.caught = NoError
             /\ last'.facts.got \in OAuthResponses
             /\ access_token' = AccessOf(last'.facts.got)
             /\ refresh_token' = RefreshOf(last'.facts.got)
             /\ last'.facts.cbs = (IF cb_refreshToken = NoCallback THEN 0 ELSE 1)
       /\ (last'.step = "settle" /\ last' # last /\ last'.facts.caught \in {ErrOAuth, ErrCallback})
          => last'.facts.cbs = 0
       /\ \/ access_token' = AccessOf(0) /\ refresh_token' \in {NoToken, RefreshOf(0)}
          \/ \E n \in OAuthResponses :
                access_token' = AccessOf(n) /\ refresh_token' = RefreshOf(n)]_vars

\* the clock offsets a Signer built from session info can have: the local time
\* less the time the peer reported
OffsetsFor(info) == {nowSec - info.clockTime : nowSec \in Clock}

\* C18: a call of generateSignature, returning or throwing, moves the counter
\* of the Signer by one and leaves its key, epoch, clock offset and peer name as
\* they were; no other step changes a field of a Signer that stays in place, the
\* validation of a handshake response included; and a Signer that comes into
\* place has the epoch and counter of the session info it was built from and, as
\* its clock offset, the local time of its construction less the time the peer
\* reported, which it keeps from then on.
C18_SignerFrame ==
    [][/\ (signer # NoSigner /\ signer'.id = signer.id)
          => /\ signer'.session = signer.session
             /\ signer'.epoch = signer.epoch
             /\ signer'.timeZero = signer.timeZero
             /\ signer'.verifierName = signer.verifierName
             /\ offered' = offered
             /\ IF last'.op = "chargingSetLimit" /\ last'.step = "call" /\ last'.signed
                THEN signer'.counter = Inc(signer.counter)
                ELSE signer' = signer
       /\ (signer' # NoSigner /\ signer'.id # signer.id)
          => /\ last'.op = "startSession" \/ last'.op = "chargingSetLimit"
             /\ last'.step = "settle" /\ last'.facts.check \in {"true", "raised"}
             /\ signer'.epoch = offered'.epoch
             /\ signer'.counter = offered'.counter
             /\ signer'.verifierName = Vin
             /\ signer'.timeZero \in OffsetsFor(offered')
       /\ signer' # NoSigner => signer'.timeZero \in OffsetsFor(offered')]_vars

C18_Witness ==
    /\ Established
    /\ last.op = "chargingSetLimit" /\ last.step = "call" /\ last.signed
    /\ last.err = ErrExpiry
    /\ signer.counter = Inc(Inc(offered.counter))
    /\ signer.epoch = offered.epoch
    /\ signer.timeZero \in OffsetsFor(offered)

\* C19: the counter of the Signer in place is an unsigned 32-bit value, and so
\* is the counter of every signature block handed to the transport.
C19_CounterInRange ==
    /\ Established => IsUint32(signer.counter)
    /\ \A id \in Pending :
          inflight[id].signatureData.has => IsUint32(inflight[id].signatureData.counter)

\* the number that four bytes spell, most significant byte first, in limbs
ReadUInt32BE(bytes) ==
    [hi |-> bytes[1] * 256 + bytes[2], lo |-> bytes[3] * 256 + bytes[4]]

\* C21: the block that a successful generateSignature hands on has a tag that
\* is the digest, under the command key of the session, of the entries
\* signature type, domain, personalization, epoch, expiresAt, counter in this
\* order (each as tag, length, value), the end byte and the payload, where the
\* epoch, expiresAt and counter absorbed are those of the block; expiresAt is
\* the local time plus the time to live less the clock offset; and the counter
\* of the block is the counter of the Signer after the call, one more than
\* before it.
C21_BlockMatchesChecksum ==
    [][(last'.op = "chargingSetLimit" /\ last'.step = "call" /\ last'.sent)
        => LET req == inflight'[last'.id]
               b == req.signatureData
               head == <<TAG_SIGNATURE_TYPE, 1, SIGNATURE_TYPE_HMAC_PERSONALIZED,
                         TAG_DOMAIN, 1, DOMAIN_INFOTAINMENT,
                         TAG_PERSONALIZATION, Len(Vin)>> \o Vin
                       \o <<TAG_EPOCH, Len(b.epoch)>> \o b.epoch
               n == Len(head)
               data == b.tag.data
           IN  /\ b.has
               /\ b.publicKey = LocalKey
               /\ b.epoch = signer.epoch
               /\ b.expiresAt = last'.expiresAt
               /\ b.counter = signer'.counter
               /\ signer'.counter = Inc(signer.counter)
               /\ b.tag.key = <<signer.session.key, "authenticated command">>
               /\ b.tag.len = DIGEST_LENGTH
               /\ Len(data) = n + 13 + Len(req.payload)
               /\ SubSeq(data, 1, n) = head
               /\ SubSeq(data, n + 1, n + 2) = <<TAG_EXPIRES_AT, 4>>
               /\ ReadUInt32BE(SubSeq(data, n + 3, n + 6)) = Wide(b.expiresAt)
               /\ SubSeq(data, n + 7, n + 8) = <<TAG_COUNTER, 4>>
               /\ ReadUInt32BE(SubSeq(data, n + 9, n + 12)) = b.counter
               /\ SubSeq(data, n + 13, Len(data)) = <<TAG_END>> \o req.payload]_vars

C21_Witness ==
    /\ last.op = "chargingSetLimit" /\ last.step = "call" /\ last.sent
    /\ last.id \in Pending
    /\ inflight[last.id].signatureData.has
    /\ inflight[last.id].signatureData.counter = [hi |-> LIMB - 1, lo |-> LIMB - 1]
    /\ inflight[last.id].signatureData.counter = signer.counter
    /\ inflight[last.id].signatureData.expiresAt > 0

\* C22: when startSession has returned, a Signer is in place that was built
\* from the session info of the response that startSession received, and that
\* response carried a session info.
C22_StartSessionEstablishes ==
    (Answered("startSession") /\ last.err = NoError)
        => /\ Established
           /\ last.facts.session # "none"
           /\ signer.id = last.id
           /\ signer.epoch = offered.epoch /\ signer.counter = offered.counter

====
